---- MODULE Spec2Model ----
(***************************************************************************)
(* repcon: the chunked pagination engine.                                  *)
(*                                                                         *)
(* The model follows src/src/file_splitting.rs (split_files_into_chunks    *)
(* and its helpers) and src/src/output_formatting.rs (PageFormat).  Texts  *)
(* are TLA+ strings, so every size is the byte length of the text that is  *)
(* really written.  The arguments of a run (file list, root, capacity) are *)
(* chosen in Init; what the file system answers (can the file be opened,   *)
(* the next line, a read failure, end of file) is chosen at the step that  *)
(* asks for it.  Container creation and container writes are taken to      *)
(* succeed (the `?` after File::create and write! never takes its error    *)
(* branch).                                                                *)
(***************************************************************************)
EXTENDS Integers, Sequences, FiniteSets, TLC

\* ------------------------------------------------------------------ bounds

\* Longest target file list of a run.
MaxFiles == 2

\* Most lines the readers yield in one run, over all target files.
MaxLines == 2

\* ------------------------------------------------------------------ inputs

\* output_name and output_directory of the run.
OutputName == "out"

OutputDirectory == "d"

\* A target path that is not valid UTF-8 (to_str() is None).
BadPath == [bytes |-> "?", utf8 |-> FALSE]

\* Target paths: PathBufs whose to_str() is Some(bytes), and BadPath.
Paths == {[bytes |-> "r/a", utf8 |-> TRUE], [bytes |-> "bb", utf8 |-> TRUE], BadPath}

\* target_files_root_path: <<>> is None, <<r>> is Some(r).
Roots == {<<>>, <<"r">>}

\* A line that fits beside a header and a footer, and one of 30 bytes.
ShortLine == "xy"

LongLine == "0123456789012345678901234567890"

LineChoices == {ShortLine, LongLine}

\* max_output_file_size: zero; below every header+footer; exactly header+footer
\* of "bb" (and header + "xy\n" + footer of "a"); room for one page with a
\* long line; room for two pages.
Capacities == {0, 10, 100, 134, 200}

\* All sequences over S of length at most n.
RECURSIVE SeqsUpTo(_, _)
SeqsUpTo(S, n) ==
    IF n = 0 THEN {<<>>}
    ELSE LET shorter == SeqsUpTo(S, n - 1)
         IN  shorter \cup {Append(s, x) : s \in {t \in shorter : Len(t) = n - 1}, x \in S}

\* ------------------------------------------------------------------ state

VARIABLES
    pc,                       \* position in split_files_into_chunks
    target_files,             \* argument: the PathBufs, in input order
    target_files_root_path,   \* argument: Option<&Path>
    max_output_file_size,     \* argument: the capacity
    file_index,               \* position of the `for target_file_path` loop (1-based)
    generated_output_files,   \* Vec<PathBuf>
    output_file_counter,      \* u64
    current_output_file_size, \* u64
    output_file,              \* the open File: the path it was created at
    output_file_path,         \* PathBuf
    page_format,              \* PageFormat of the current target file
    disk,                     \* the output directory: path -> chunks written
    log,                      \* every File::create and write!, in program order
    source,                   \* per target file: what the file system delivered
    stderr,                   \* the lines eprintln! has written, in order
    ret,                      \* the io::Result returned
    line_limit,               \* most lines the readers yield in this run
    earlier,                  \* the earlier run over the same inputs, if there was one
    dir,                      \* collect_target_files: the entries under `dir`
    ignore_patterns,          \* collect_target_files: argument
    reconignore_path,         \* collect_target_files: Option<&String>, and the file there
    files,                    \* the Vec<PathBuf> collect_target_files returns
    total_size,               \* the u64 get_dir_size returns
    walk_pc,                  \* position in collect_target_files / get_dir_size
    upload,                   \* upload_to_openai: argument, Option<Option<String>>
    environment,              \* env::var("OPENAI_API_KEY"), as an Option<String>
    stdout,                   \* the lines println! has written, in order
    upload_pc,                \* position in upload_to_openai
    other_call                \* another call of upload_to_openai, if there was one

vars == <<pc, target_files, target_files_root_path, max_output_file_size,
          file_index, generated_output_files, output_file_counter,
          current_output_file_size, output_file, output_file_path,
          page_format, disk, log, source, stderr, ret, line_limit, earlier,
          dir, ignore_patterns, reconignore_path, files, total_size, walk_pc,
          upload, environment, stdout, upload_pc, other_call>>

\* What a run is given: its arguments, and what no step of it changes.
args == <<target_files, target_files_root_path, max_output_file_size,
          line_limit, earlier>>

\* The state of collect_target_files and get_dir_size.
walk == <<dir, ignore_patterns, reconignore_path, files, total_size, walk_pc>>

\* The state of upload_to_openai.
cli == <<upload, environment, stdout, upload_pc, other_call>>

\* ----------------------------------------------------- output_formatting.rs

\* Path::strip_prefix(root).unwrap_or(file_path), on "/"-separated strings.
to_relative_path(root, file_path) ==
    LET n == Len(root)
    IN  IF Len(file_path) > n + 1 /\ SubSeq(file_path, 1, n + 1) = root \o "/"
        THEN SubSeq(file_path, n + 2, Len(file_path))
        ELSE file_path

create_page_header(file_path, page_number) ==
    "# repcon_file_name: " \o file_path
        \o "\n# repcon_page_number: " \o ToString(page_number)
        \o "\n// START OF CODE BLOCK: " \o file_path \o "\n"

\* Mutant: the footer ends with its own line terminator only.
create_page_footer_one_line(file_path) ==
    "// END OF CODE BLOCK: " \o file_path \o "\n"

create_page_footer(file_path) ==
    "// END OF CODE BLOCK: " \o file_path \o "\n\n"

get_page_header_size(pf) == Len(pf.header)

get_page_footer_size(pf) == Len(pf.footer)

\* PageFormat::new
PageFormatNew(file_path, root) ==
    LET fp     == IF root # <<>> THEN to_relative_path(root[1], file_path) ELSE file_path
        header == create_page_header(fp, 1)
        footer == create_page_footer(fp)
    IN  [header      |-> header,
         footer      |-> footer,
         header_size |-> Len(header),
         footer_size |-> Len(footer),
         file_path   |-> fp,
         page_nubmer |-> 1]

\* Mutant: the texts are rendered again, the sizes are left as they were.
increment_page_number_keeps_sizes(pf) ==
    LET n == pf.page_nubmer + 1
    IN  [pf EXCEPT !.page_nubmer = n,
                   !.header = create_page_header(pf.file_path, n),
                   !.footer = create_page_footer(pf.file_path)]

\* Mutant: the page number advances, the header text is not rendered again.
increment_page_number_stale(pf) ==
    [pf EXCEPT !.page_nubmer = @ + 1]

\* PageFormat::increment_page_number
increment_page_number(pf) ==
    LET n  == pf.page_nubmer + 1
        p1 == [pf EXCEPT !.page_nubmer = n,
                         !.header = create_page_header(pf.file_path, n),
                         !.footer = create_page_footer(pf.file_path)]
    IN  [p1 EXCEPT !.header_size = get_page_header_size(p1),
                   !.footer_size = get_page_footer_size(p1)]

\* The PageFormat variable before any file was opened (declared, not yet set).
NoPageFormat ==
    [header |-> "", footer |-> "", header_size |-> 0, footer_size |-> 0,
     file_path |-> "", page_nubmer |-> 0]

\* ------------------------------------------------------- file_splitting.rs

\* The path create_new_output_file creates: output_directory.join("{name}_{counter}.txt")
output_path(output_directory, file_counter, output_name) ==
    output_directory \o "/" \o output_name \o "_" \o ToString(file_counter) \o ".txt"

\* Mutant: the check never fails.
check_never_fails(pf, max_size) == TRUE

\* check_max_output_file_size: TRUE is Ok(()), FALSE is Err(InvalidData)
check_max_output_file_size(pf, max_size) ==
    ~(get_page_header_size(pf) + get_page_footer_size(pf) > max_size)

\* Mutant: the rollover test before a header forgets the footer.
header_rollover_without_footer(used, pf, max_size) ==
    used + pf.header_size > max_size

\* Mutant: the rollover test before a header is not strict.
header_rollover_not_strict(used, pf, max_size) ==
    used + pf.header_size + pf.footer_size >= max_size

\* The pre-header rollover test
header_needs_rollover(used, pf, max_size) ==
    used + pf.header_size + pf.footer_size > max_size

\* line.as_bytes().len() as u64 + 1
line_size_of(line) == Len(line) + 1

\* Mutant: the rollover test at a line leaves no room for the footer.
line_rollover_without_footer(used, line_size, pf, max_size) ==
    used + line_size > max_size

\* Mutant: the rollover test at a line is not strict.
line_rollover_not_strict(used, line_size, pf, max_size) ==
    used + line_size + pf.footer_size >= max_size

\* The mid-file rollover test
line_needs_rollover(used, line_size, pf, max_size) ==
    used + line_size + pf.footer_size > max_size

\* The io::Result values.
NotReturned == [tag |-> "none", files |-> <<>>, error |-> ""]

Ok(list) == [tag |-> "Ok", files |-> list, error |-> ""]

Err(message) == [tag |-> "Err", files |-> <<>>, error |-> message]

\* One write!/writeln! to a container: what was written, and for which page.
Chunk(kind, file, page, text) ==
    [kind |-> kind, file |-> file, page |-> page, text |-> text]

CreateEvent(path) == [op |-> "create", path |-> path, chunk |-> Chunk("", 0, 0, "")]

WriteEvent(path, chunk) == [op |-> "write", path |-> path, chunk |-> chunk]

\* Mutant: an existing container is opened as it is, not truncated.
FileCreate_keeps(d, path) ==
    IF path \in DOMAIN d THEN d ELSE (path :> <<>>) @@ d

\* File::create: the file exists and is empty afterwards.
FileCreate(d, path) == (path :> <<>>) @@ d

\* write!(output_file, ..): the bytes are appended to the open file.
FileWrite(d, path, chunk) == [d EXCEPT ![path] = Append(@, chunk)]

\* What the file system has delivered for one target file so far.
NoSource == [opened |-> FALSE, lines |-> <<>>, read_err |-> FALSE, eof |-> FALSE]

\* No earlier run.
NoEarlier == [ran |-> FALSE, ret |-> NotReturned, disk |-> <<>>, source |-> <<>>]

\* eprintln!("Failed to open file {:?}: {}", target_file_path, e)
OpenFailure(file, path) ==
    [file |-> file,
     text |-> "Failed to open file \"" \o path.bytes \o "\": No such file or directory (os error 2)"]

\* eprintln!("Skipping non-text file: {:?}", target_file_path)
ReadFailure(file, path) ==
    [file |-> file, text |-> "Skipping non-text file: \"" \o path.bytes \o "\""]

\* The locals of split_files_into_chunks at entry.
Entry ==
    /\ pc = "start"
    /\ file_index = 1
    /\ generated_output_files = <<>>
    /\ output_file_counter = 1
    /\ current_output_file_size = 0
    /\ output_file = ""
    /\ output_file_path = ""
    /\ page_format = NoPageFormat
    /\ log = <<>>
    /\ source = [i \in 1..Len(target_files) |-> NoSource]
    /\ stderr = <<>>
    /\ ret = NotReturned

\* collect_target_files and get_dir_size are not called.
NoWalk ==
    /\ dir = {}
    /\ ignore_patterns = <<>>
    /\ reconignore_path = [given |-> FALSE, exists |-> FALSE, lines |-> <<>>]
    /\ files = <<>>
    /\ total_size = 0
    /\ walk_pc = "idle"

\* upload_to_openai has not been called by another run.
NoOtherCall == [ran |-> FALSE, upload |-> <<>>, environment |-> <<>>, stdout |-> <<>>]

\* upload_to_openai is not called.
NoUpload ==
    /\ upload = <<>>
    /\ environment = <<>>
    /\ stdout = <<>>
    /\ upload_pc = "idle"
    /\ other_call = NoOtherCall

Init ==
    /\ NoWalk
    /\ NoUpload
    /\ target_files \in SeqsUpTo(Paths, MaxFiles)
    /\ target_files_root_path \in Roots
    /\ max_output_file_size \in Capacities
    /\ line_limit = MaxLines
    /\ earlier = NoEarlier
    /\ disk = <<>>
    /\ Entry

\* ------------------------------------------------------------- operations

\* The mutable locals that next_output_file and the writes touch.
Locals ==
    [counter |-> output_file_counter,
     size    |-> current_output_file_size,
     files   |-> generated_output_files,
     file    |-> output_file,
     path    |-> output_file_path,
     disk    |-> disk,
     log     |-> log]

Store(s) ==
    /\ output_file_counter' = s.counter
    /\ current_output_file_size' = s.size
    /\ generated_output_files' = s.files
    /\ output_file' = s.file
    /\ output_file_path' = s.path
    /\ disk' = s.disk
    /\ log' = s.log

\* Mutant: the new container is created but the writes keep the old handle.
next_output_file_keeps_handle(s) ==
    LET c == s.counter + 1
        p == output_path(OutputDirectory, c, OutputName)
    IN  [s EXCEPT !.counter = c,
                  !.size    = 0,
                  !.path    = p,
                  !.disk    = FileCreate(@, p),
                  !.log     = Append(@, CreateEvent(p)),
                  !.files   = Append(@, p)]

\* Mutant: the new container is not pushed to the list.
next_output_file_no_push(s) ==
    LET c == s.counter + 1
        p == output_path(OutputDirectory, c, OutputName)
    IN  [s EXCEPT !.counter = c,
                  !.size    = 0,
                  !.file    = p,
                  !.path    = p,
                  !.disk    = FileCreate(@, p),
                  !.log     = Append(@, CreateEvent(p))]

\* Mutant: every rollover opens two containers.
next_output_file_twice(s) ==
    LET c == s.counter + 2
        skipped == output_path(OutputDirectory, s.counter + 1, OutputName)
        p == output_path(OutputDirectory, c, OutputName)
    IN  [s EXCEPT !.counter = c,
                  !.size    = 0,
                  !.file    = p,
                  !.path    = p,
                  !.disk    = FileCreate(FileCreate(@, skipped), p),
                  !.log     = @ \o <<CreateEvent(skipped), CreateEvent(p)>>,
                  !.files   = @ \o <<skipped, p>>]

\* next_output_file: counter += 1, size = 0, create the file, push its path.
next_output_file(s) ==
    LET c == s.counter + 1
        p == output_path(OutputDirectory, c, OutputName)
    IN  [s EXCEPT !.counter = c,
                  !.size    = 0,
                  !.file    = p,
                  !.path    = p,
                  !.disk    = FileCreate(@, p),
                  !.log     = Append(@, CreateEvent(p)),
                  !.files   = Append(@, p)]

\* write!(output_file, "{}", text)
write(s, chunk) ==
    [s EXCEPT !.disk = FileWrite(@, s.file, chunk),
              !.log  = Append(@, WriteEvent(s.file, chunk))]

\* write!(output_file, "{}", page_format.header); size += header_size
write_header(s, pf, file) ==
    [write(s, Chunk("header", file, pf.page_nubmer, pf.header))
        EXCEPT !.size = @ + pf.header_size]

\* Mutant: only the first byte of the line is written.
write_line_truncated(s, pf, file, line) ==
    [write(s, Chunk("line", file, pf.page_nubmer, SubSeq(line, 1, 1) \o "\n"))
        EXCEPT !.size = @ + 2]

\* writeln!(output_file, "{}", line); size += line_size
write_line(s, pf, file, line) ==
    [write(s, Chunk("line", file, pf.page_nubmer, line \o "\n"))
        EXCEPT !.size = @ + line_size_of(line)]

\* Mutant: the footer is counted like the header and the lines.
write_footer_counted(s, pf, file) ==
    [write(s, Chunk("footer", file, pf.page_nubmer, pf.footer))
        EXCEPT !.size = @ + pf.footer_size]

\* write!(output_file, "{}", page_format.footer): the size is left as it is.
write_footer(s, pf, file) ==
    write(s, Chunk("footer", file, pf.page_nubmer, pf.footer))

\* The rollover before a header: next_output_file is handed a clone of
\* output_file_path, so the caller's output_file_path keeps its value.
rollover_before_header(s) ==
    [next_output_file(s) EXCEPT !.path = s.path]

\* Mutant: the first container is created and not pushed.
Start_NoPush ==
    /\ pc = "start"
    /\ LET p == output_path(OutputDirectory, output_file_counter, OutputName)
       IN  /\ output_file' = p
           /\ output_file_path' = p
           /\ disk' = FileCreate(disk, p)
           /\ log' = Append(log, CreateEvent(p))
    /\ pc' = "loop"
    /\ UNCHANGED <<args, walk, cli, stderr, file_index, output_file_counter, current_output_file_size,
                   page_format, source, ret, generated_output_files>>

\* Lines 98-107: the first container is created and pushed.
Start ==
    /\ pc = "start"
    /\ LET p == output_path(OutputDirectory, output_file_counter, OutputName)
       IN  /\ output_file' = p
           /\ output_file_path' = p
           /\ disk' = FileCreate(disk, p)
           /\ log' = Append(log, CreateEvent(p))
           /\ generated_output_files' = Append(generated_output_files, p)
    /\ pc' = "loop"
    /\ UNCHANGED <<args, walk, cli, stderr, file_index, output_file_counter, current_output_file_size,
                   page_format, source, ret>>

InLoop == pc = "loop" /\ file_index <= Len(target_files)

\* Mutant: a path that is not UTF-8 is tried, fails to open and is skipped.
InvalidPath_Skipped ==
    /\ InLoop
    /\ ~target_files[file_index].utf8
    /\ file_index' = file_index + 1
    /\ stderr' = Append(stderr, OpenFailure(file_index, target_files[file_index]))
    /\ UNCHANGED <<pc, args, walk, cli, generated_output_files, output_file_counter,
                   current_output_file_size, output_file, output_file_path,
                   page_format, disk, log, source, ret>>

\* Lines 110-118: to_str() is None.
InvalidPath ==
    /\ InLoop
    /\ ~target_files[file_index].utf8
    /\ ret' = Err("Target File path contains invalid UTF-8 characters")
    /\ pc' = "done"
    /\ UNCHANGED <<args, walk, cli, stderr, file_index, generated_output_files, output_file_counter,
                   current_output_file_size, output_file, output_file_path,
                   page_format, disk, log, source>>

\* Mutant: the space for a header is accounted before the open fails.
OpenFails_Counts ==
    /\ InLoop
    /\ target_files[file_index].utf8
    /\ file_index' = file_index + 1
    /\ current_output_file_size' = current_output_file_size
          + PageFormatNew(target_files[file_index].bytes, target_files_root_path).header_size
    /\ stderr' = Append(stderr, OpenFailure(file_index, target_files[file_index]))
    /\ UNCHANGED <<pc, args, walk, cli, generated_output_files, output_file_counter,
                   output_file, output_file_path, page_format, disk, log, source, ret>>

\* Mutant: the header and footer of a file that fails to open are checked.
OpenFails_Checked ==
    /\ InLoop
    /\ target_files[file_index].utf8
    /\ stderr' = Append(stderr, OpenFailure(file_index, target_files[file_index]))
    /\ IF check_max_output_file_size(
              PageFormatNew(target_files[file_index].bytes, target_files_root_path),
              max_output_file_size)
       THEN /\ file_index' = file_index + 1
            /\ UNCHANGED <<pc, ret>>
       ELSE /\ ret' = Err("The maximum file size is too small to contain the page header and footer.")
            /\ pc' = "done"
            /\ UNCHANGED file_index
    /\ UNCHANGED <<args, walk, cli, generated_output_files, output_file_counter,
                   current_output_file_size, output_file, output_file_path,
                   page_format, disk, log, source>>

\* Lines 120-126: File::open fails; eprintln and continue.
OpenFails ==
    /\ InLoop
    /\ target_files[file_index].utf8
    /\ file_index' = file_index + 1
    /\ stderr' = Append(stderr, OpenFailure(file_index, target_files[file_index]))
    /\ UNCHANGED <<pc, args, walk, cli, generated_output_files, output_file_counter,
                   current_output_file_size, output_file, output_file_path,
                   page_format, disk, log, source, ret>>

\* Mutant: the header is written before the check fails.
HeaderTooLarge_AfterHeader ==
    /\ InLoop
    /\ target_files[file_index].utf8
    /\ LET pf == PageFormatNew(target_files[file_index].bytes, target_files_root_path)
       IN  /\ ~check_max_output_file_size(pf, max_output_file_size)
           /\ page_format' = pf
           /\ Store(write_header(Locals, pf, file_index))
    /\ source' = [source EXCEPT ![file_index].opened = TRUE]
    /\ ret' = Err("The maximum file size is too small to contain the page header and footer.")
    /\ pc' = "done"
    /\ UNCHANGED <<args, walk, cli, stderr, file_index>>

\* Lines 128-129: the file opens, the page-1 header and footer do not fit.
HeaderTooLarge ==
    /\ InLoop
    /\ target_files[file_index].utf8
    /\ LET pf == PageFormatNew(target_files[file_index].bytes, target_files_root_path)
       IN  /\ ~check_max_output_file_size(pf, max_output_file_size)
           /\ page_format' = pf
    /\ source' = [source EXCEPT ![file_index].opened = TRUE]
    /\ ret' = Err("The maximum file size is too small to contain the page header and footer.")
    /\ pc' = "done"
    /\ UNCHANGED <<args, walk, cli, stderr, file_index, generated_output_files, output_file_counter,
                   current_output_file_size, output_file, output_file_path, disk, log>>

\* Lines 128-146: the file opens and its header is written, after a rollover
\* when `rolls`.
OpenAndWriteHeader(rolls) ==
    /\ InLoop
    /\ target_files[file_index].utf8
    /\ LET pf == PageFormatNew(target_files[file_index].bytes, target_files_root_path)
           s0 == Locals
           s1 == IF header_needs_rollover(s0.size, pf, max_output_file_size)
                 THEN rollover_before_header(s0) ELSE s0
       IN  /\ check_max_output_file_size(pf, max_output_file_size)
           /\ rolls = header_needs_rollover(s0.size, pf, max_output_file_size)
           /\ page_format' = pf
           /\ Store(write_header(s1, pf, file_index))
    /\ source' = [source EXCEPT ![file_index].opened = TRUE]
    /\ pc' = "lines"
    /\ UNCHANGED <<args, walk, cli, stderr, file_index, ret>>

HeaderInCurrent ==
    /\ InLoop
    /\ OpenAndWriteHeader(FALSE)

HeaderAfterRollover ==
    /\ InLoop
    /\ OpenAndWriteHeader(TRUE)

\* Mutant: the read failure goes on to the next file, past the footer.
ReadFails_SkipsFooter ==
    /\ pc = "lines"
    /\ source' = [source EXCEPT ![file_index].read_err = TRUE]
    /\ file_index' = file_index + 1
    /\ pc' = "loop"
    /\ stderr' = Append(stderr, ReadFailure(file_index, target_files[file_index]))
    /\ UNCHANGED <<args, walk, cli, generated_output_files, output_file_counter,
                   current_output_file_size, output_file, output_file_path,
                   page_format, disk, log, ret>>

\* Mutant: the read failure breaks out of the lines without a message.
ReadFails_Silent ==
    /\ pc = "lines"
    /\ source' = [source EXCEPT ![file_index].read_err = TRUE]
    /\ pc' = "footer"
    /\ UNCHANGED <<args, walk, cli, stderr, file_index, generated_output_files, output_file_counter,
                   current_output_file_size, output_file, output_file_path,
                   page_format, disk, log, ret>>

\* Lines 149-153: the reader yields Err; eprintln and break.
ReadFails ==
    /\ pc = "lines"
    /\ source' = [source EXCEPT ![file_index].read_err = TRUE]
    /\ pc' = "footer"
    /\ stderr' = Append(stderr, ReadFailure(file_index, target_files[file_index]))
    /\ UNCHANGED <<args, walk, cli, file_index, generated_output_files, output_file_counter,
                   current_output_file_size, output_file, output_file_path,
                   page_format, disk, log, ret>>

\* Line 149: the reader is exhausted.
EndOfFile ==
    /\ pc = "lines"
    /\ source' = [source EXCEPT ![file_index].eof = TRUE]
    /\ pc' = "footer"
    /\ UNCHANGED <<args, walk, cli, stderr, file_index, generated_output_files, output_file_counter,
                   current_output_file_size, output_file, output_file_path,
                   page_format, disk, log, ret>>

\* Lines read so far, over the target files 1..n.
RECURSIVE LinesRead(_)
LinesRead(n) == IF n = 0 THEN 0 ELSE Len(source[n].lines) + LinesRead(n - 1)

CanRead == pc = "lines" /\ LinesRead(Len(target_files)) < line_limit

\* Lines 154-158, 177-178: the line goes to the current container.
LineFits ==
    /\ CanRead
    /\ \E line \in LineChoices :
        /\ ~line_needs_rollover(current_output_file_size, line_size_of(line),
                                page_format, max_output_file_size)
        /\ Store(write_line(Locals, page_format, file_index, line))
        /\ source' = [source EXCEPT ![file_index].lines = Append(@, line)]
    /\ UNCHANGED <<pc, args, walk, cli, stderr, file_index, page_format, ret>>

\* Mutant: the header of the new page is written without the check.
LineRollsOver_Unchecked ==
    /\ CanRead
    /\ \E line \in LineChoices :
        /\ line_needs_rollover(current_output_file_size, line_size_of(line),
                               page_format, max_output_file_size)
        /\ source' = [source EXCEPT ![file_index].lines = Append(@, line)]
        /\ LET s1 == next_output_file(write_footer(Locals, page_format, file_index))
               pf == increment_page_number(page_format)
           IN  /\ page_format' = pf
               /\ Store(write_line(write_header(s1, pf, file_index),
                                   pf, file_index, line))
    /\ UNCHANGED <<args, walk, cli, stderr, file_index, pc, ret>>

\* Mutant: the line that caused the rollover is not written.
LineRollsOver_DropsLine ==
    /\ CanRead
    /\ \E line \in LineChoices :
        /\ line_needs_rollover(current_output_file_size, line_size_of(line),
                               page_format, max_output_file_size)
        /\ source' = [source EXCEPT ![file_index].lines = Append(@, line)]
        /\ LET s1 == next_output_file(write_footer(Locals, page_format, file_index))
               pf == increment_page_number(page_format)
           IN  /\ page_format' = pf
               /\ IF check_max_output_file_size(pf, max_output_file_size)
                  THEN /\ Store(write_header(s1, pf, file_index))
                       /\ UNCHANGED <<pc, ret>>
                  ELSE /\ Store(s1)
                       /\ ret' = Err("The maximum file size is too small to contain the page header and footer.")
                       /\ pc' = "done"
    /\ UNCHANGED <<args, walk, cli, stderr, file_index>>

\* Lines 154-178: footer, next container, next page, check, header, line.
LineRollsOver ==
    /\ CanRead
    /\ \E line \in LineChoices :
        /\ line_needs_rollover(current_output_file_size, line_size_of(line),
                               page_format, max_output_file_size)
        /\ source' = [source EXCEPT ![file_index].lines = Append(@, line)]
        /\ LET s1 == next_output_file(write_footer(Locals, page_format, file_index))
               pf == increment_page_number(page_format)
           IN  /\ page_format' = pf
               /\ IF check_max_output_file_size(pf, max_output_file_size)
                  THEN /\ Store(write_line(write_header(s1, pf, file_index),
                                           pf, file_index, line))
                       /\ UNCHANGED <<pc, ret>>
                  ELSE /\ Store(s1)
                       /\ ret' = Err("The maximum file size is too small to contain the page header and footer.")
                       /\ pc' = "done"
    /\ UNCHANGED <<args, walk, cli, stderr, file_index>>

\* Mutant: the footer after the lines loop is forgotten.
WriteFooter_Missing ==
    /\ pc = "footer"
    /\ file_index' = file_index + 1
    /\ pc' = "loop"
    /\ UNCHANGED <<args, walk, cli, stderr, page_format, source, ret, generated_output_files,
                   output_file_counter, current_output_file_size, output_file,
                   output_file_path, disk, log>>

\* Line 180: the footer after the lines loop; the next file follows.
WriteFooter ==
    /\ pc = "footer"
    /\ Store(write_footer(Locals, page_format, file_index))
    /\ file_index' = file_index + 1
    /\ pc' = "loop"
    /\ UNCHANGED <<args, walk, cli, stderr, page_format, source, ret>>

\* Line 182: Ok(generated_output_files)
Finish ==
    /\ pc = "loop"
    /\ file_index > Len(target_files)
    /\ ret' = Ok(generated_output_files)
    /\ pc' = "done"
    /\ UNCHANGED <<args, walk, cli, stderr, file_index, generated_output_files, output_file_counter,
                   current_output_file_size, output_file, output_file_path,
                   page_format, disk, log, source>>

Next ==
    \/ Start
    \/ InvalidPath
    \/ OpenFails
    \/ HeaderTooLarge
    \/ HeaderInCurrent
    \/ HeaderAfterRollover
    \/ ReadFails
    \/ EndOfFile
    \/ LineFits
    \/ LineRollsOver
    \/ WriteFooter
    \/ Finish

Spec == Init /\ [][Next]_vars


\* ------------------------------------------------------- reading the output

RECURSIVE SumBytes(_)
SumBytes(chunks) ==
    IF chunks = <<>> THEN 0 ELSE Len(Head(chunks).text) + SumBytes(Tail(chunks))

\* The byte size of the container at `path`.
ContainerBytes(path) == SumBytes(disk[path])

RECURSIVE ChunksOf(_)
ChunksOf(paths) ==
    IF paths = <<>> THEN <<>> ELSE disk[Head(paths)] \o ChunksOf(Tail(paths))

\* Everything written, container after container in the order of the list.
AllChunks == ChunksOf(generated_output_files)

IsLineOf(i, c) == c.kind = "line" /\ c.file = i

IsHeaderOf(i, c) == c.kind = "header" /\ c.file = i

\* The line chunks of target file i, in container order.
LineChunks(i) == SelectSeq(AllChunks, LAMBDA c : IsLineOf(i, c))

\* The header write events of target file i, in program order.
HeaderWrites(i) ==
    SelectSeq(log, LAMBDA e : e.op = "write" /\ IsHeaderOf(i, e.chunk))

\* The identifier PageFormat::new gives target file i.
Identifier(i) ==
    PageFormatNew(target_files[i].bytes, target_files_root_path).file_path

\* Header plus footer of target file i at page 1, from the texts.
FrameSize(i) ==
    Len(create_page_header(Identifier(i), 1)) + Len(create_page_footer(Identifier(i)))

Files == 1..Len(target_files)

Returned == pc = "done"

Succeeded == ret.tag = "Ok"

Failed == ret.tag = "Err"

\* Target file i has been through the loop body (skipped or closed).
Passed(i) == i < file_index

NonDecreasing(seq) == \A k \in 1..(Len(seq) - 1) : seq[k] <= seq[k + 1]

\* ------------------------------------------------- a long single file

\* Lines read in a run over one file that reaches page 10.
LongRun == 10

\* Capacities that hold the page-1 header and footer of "a" (72 + 25): the
\* first holds nothing more, so every line opens a page and page 10, whose
\* header is a byte longer, fails the check.
PageCapacities == {97, 100}

InitPages ==
    /\ NoWalk
    /\ NoUpload
    /\ target_files = <<[bytes |-> "r/a", utf8 |-> TRUE]>>
    /\ target_files_root_path = <<"r">>
    /\ max_output_file_size \in PageCapacities
    /\ line_limit = LongRun
    /\ earlier = NoEarlier
    /\ disk = <<>>
    /\ Entry

NextPages ==
    \/ Start
    \/ HeaderInCurrent
    \/ ReadFails
    \/ EndOfFile
    \/ LineFits
    \/ LineRollsOver
    \/ WriteFooter
    \/ Finish

SpecPages == InitPages /\ [][NextPages]_vars

\* ------------------------------------------------------ the run as a whole

\* The function is sequential code: while a step is possible, one is taken.
SpecLive == Init /\ [][Next]_vars /\ WF_vars(Next)

\* --------------------------------------- short runs and the long single file

\* The runs of Spec and the runs of SpecPages, with every step of Next.
InitAll == Init \/ InitPages

SpecAll == InitAll /\ [][Next]_vars

\* ------------------------------------------------------- a second run

IsPrefix(a, b) == Len(a) <= Len(b) /\ a = SubSeq(b, 1, Len(a))

\* What the file system has delivered of a file so far agrees with what
\* it delivered of the same file in the earlier run.
Agrees(now, before) ==
    /\ now.opened => before.opened
    /\ IsPrefix(now.lines, before.lines)
    /\ now.read_err => (before.read_err /\ now.lines = before.lines)
    /\ now.eof => (before.eof /\ now.lines = before.lines)

\* In a second run the files are what they were in the first.
SameFiles ==
    earlier.ran =>
        \A i \in Files :
            /\ Agrees(source[i], earlier.source[i])
            /\ (Passed(i) /\ ~source[i].opened) => ~earlier.source[i].opened

\* A step of split_files_into_chunks over unchanged files.
Run == Next /\ SameFiles'

\* The function has returned and is called again with the same arguments;
\* the containers of the first run are still in the output directory.
Rerun ==
    /\ pc = "done"
    /\ ~earlier.ran
    /\ earlier' = [ran |-> TRUE, ret |-> ret, disk |-> disk, source |-> source]
    /\ pc' = "start"
    /\ file_index' = 1
    /\ generated_output_files' = <<>>
    /\ output_file_counter' = 1
    /\ current_output_file_size' = 0
    /\ output_file' = ""
    /\ output_file_path' = ""
    /\ page_format' = NoPageFormat
    /\ log' = <<>>
    /\ source' = [i \in 1..Len(target_files) |-> NoSource]
    /\ stderr' = <<>>
    /\ ret' = NotReturned
    /\ UNCHANGED <<target_files, target_files_root_path, max_output_file_size,
                   line_limit, disk, walk, cli>>

NextRerun == Run \/ Rerun

SpecRerun == Init /\ [][NextRerun]_vars

\* --------------------------------------------------------- file_operations

\* Most patterns passed as arguments, most lines of the repconignore file.
MaxPatterns == 1
MaxIgnoreLines == 2

\* An entry under `dir`: its directory ("" is `dir` itself), its name, its
\* type, its size, and whether an ignore file of the tree (.ignore,
\* .gitignore) lists it.
DirEntry(parent, name, kind, size, listed) ==
    [parent |-> parent, name |-> name, kind |-> kind, size |-> size, listed |-> listed]

SubDirectory == DirEntry("", "sub", "dir", 0, FALSE)

Entries ==
    {DirEntry("", "a.txt", "file", 13, FALSE),
     DirEntry("", "c.rs", "file", 7, FALSE),
     DirEntry("", ".env", "file", 5, FALSE),
     DirEntry("", "t.log", "file", 40, TRUE),
     SubDirectory,
     DirEntry("sub", "b.txt", "file", 22, FALSE)}

\* The directories that can be on disk: a file in sub/ needs sub/.
Trees == {t \in SUBSET Entries : (\E e \in t : e.parent = "sub") => SubDirectory \in t}

PatternChoices == {"a.txt", "*.txt", "hoge", "sub"}

IgnoreLineChoices == {"", " ", "# c.rs", "sub", "*"}

ReconignoreChoices ==
    {[given |-> FALSE, exists |-> FALSE, lines |-> <<>>],
     [given |-> TRUE, exists |-> FALSE, lines |-> <<>>]}
    \cup {[given |-> TRUE, exists |-> TRUE, lines |-> l] :
            l \in SeqsUpTo(IgnoreLineChoices, MaxIgnoreLines)}

\* line.trim().is_empty()
IsBlank(line) == \A k \in 1..Len(line) : SubSeq(line, k, k) = " "

\* line.starts_with('#')
StartsWith(line, c) == Len(line) >= 1 /\ SubSeq(line, 1, 1) = c

\* Mutant: the lines of the repconignore file are not added.
repconignore_rules_dropped(r) == <<>>

\* Lines 30-41: the lines of the file that become rules, "!" before each.
repconignore_rules(r) ==
    IF r.given /\ r.exists
    THEN LET kept == SelectSeq(r.lines, LAMBDA l : ~IsBlank(l) /\ ~StartsWith(l, "#"))
         IN  [k \in 1..Len(kept) |-> "!" \o kept[k]]
    ELSE <<>>

\* Lines 23-27: the patterns of the arguments, "!" before each.
argument_rules(patterns) == [k \in 1..Len(patterns) |-> "!" \o patterns[k]]

\* Line 43: the overrides built from both.
overrides(patterns, r) == argument_rules(patterns) \o repconignore_rules(r)

\* A glob without "/" against one name; "*" is any run of characters.
RECURSIVE GlobMatch(_, _)
GlobMatch(glob, name) ==
    IF glob = "" THEN name = ""
    ELSE IF SubSeq(glob, 1, 1) = "*"
         THEN \/ GlobMatch(SubSeq(glob, 2, Len(glob)), name)
              \/ name # "" /\ GlobMatch(glob, SubSeq(name, 2, Len(name)))
         ELSE /\ name # ""
              /\ SubSeq(glob, 1, 1) = SubSeq(name, 1, 1)
              /\ GlobMatch(SubSeq(glob, 2, Len(glob)), SubSeq(name, 2, Len(name)))

\* An override "!glob" ignores an entry whose name, or whose directory's
\* name, the glob matches (an ignored directory is not descended into).
OverrideIgnores(rule, e) ==
    /\ StartsWith(rule, "!")
    /\ LET glob == SubSeq(rule, 2, Len(rule))
       IN  GlobMatch(glob, e.name) \/ (e.parent # "" /\ GlobMatch(glob, e.parent))

\* WalkBuilder's standard filters: hidden entries and the entries the
\* ignore files of the tree list are not yielded.
StandardFilters(e) ==
    \/ StartsWith(e.name, ".")
    \/ StartsWith(e.parent, ".")
    \/ e.listed

\* Line 44: the entries WalkBuilder::new(dir).overrides(overrides).build() yields.
Walk(tree, rules) ==
    {e \in tree : ~StandardFilters(e) /\ \A k \in 1..Len(rules) : ~OverrideIgnores(rules[k], e)}

\* file_operations::to_relative_path(dir, entry.path())
relative_path(e) == IF e.parent = "" THEN e.name ELSE e.parent \o "/" \o e.name

\* The orders a walk can yield a set of entries in.
Orders(set) ==
    {o \in [1..Cardinality(set) -> set] : \A i, j \in 1..Cardinality(set) : o[i] = o[j] => i = j}

RECURSIVE SumSizes(_)
SumSizes(sizes) == IF sizes = <<>> THEN 0 ELSE Head(sizes) + SumSizes(Tail(sizes))

\* Lines 64-72: the sizes of the files whose metadata can be read, summed.
get_dir_size(tree, list) ==
    LET found == SelectSeq(list, LAMBDA f : \E e \in tree : relative_path(e) = f)
    IN  SumSizes([k \in 1..Len(found) |->
                    (CHOOSE e \in tree : relative_path(e) = found[k]).size])

InitCollect ==
    /\ NoUpload
    /\ dir \in Trees
    /\ ignore_patterns \in SeqsUpTo(PatternChoices, MaxPatterns)
    /\ reconignore_path \in ReconignoreChoices
    /\ files = <<>>
    /\ total_size = 0
    /\ walk_pc = "collect"
    /\ target_files = <<>>
    /\ target_files_root_path = <<>>
    /\ max_output_file_size = 0
    /\ line_limit = 0
    /\ earlier = NoEarlier
    /\ disk = <<>>
    /\ Entry

\* Lines 14-57: collect_target_files.
CollectTargetFiles ==
    /\ walk_pc = "collect"
    /\ LET yielded == Walk(dir, overrides(ignore_patterns, reconignore_path))
           regular == {e \in yielded : e.kind = "file"}
       IN  \E o \in Orders(regular) :
               files' = [k \in 1..Len(o) |-> relative_path(o[k])]
    /\ walk_pc' = "size"
    /\ UNCHANGED <<dir, ignore_patterns, reconignore_path, total_size>>
    /\ UNCHANGED <<pc, args, cli, file_index, generated_output_files, output_file_counter,
                   current_output_file_size, output_file, output_file_path,
                   page_format, disk, log, source, stderr, ret>>

\* Lines 64-72: get_dir_size(dir, &files).
GetDirSize ==
    /\ walk_pc = "size"
    /\ total_size' = get_dir_size(dir, files)
    /\ walk_pc' = "done"
    /\ UNCHANGED <<dir, ignore_patterns, reconignore_path, files>>
    /\ UNCHANGED <<pc, args, cli, file_index, generated_output_files, output_file_counter,
                   current_output_file_size, output_file, output_file_path,
                   page_format, disk, log, source, stderr, ret>>

NextCollect == CollectTargetFiles \/ GetDirSize

SpecCollect == InitCollect /\ [][NextCollect]_vars

\* ------------------------------------------------------------------ main.rs
\* The binary's own split_files_into_chunks. Its locals are held in the
\* variables of the library routine: file_counter in output_file_counter,
\* current_file_size in current_output_file_size, files in target_files,
\* max_file_size in max_output_file_size, and current_file_name,
\* page_number, page_header, page_header_size, page_footer_size in the
\* fields of page_format. It keeps no list of the containers.

\* The name main() passes.
RepositoryName == "repo_hoge"

MainPaths == {[bytes |-> "bb", utf8 |-> TRUE], [bytes |-> "r/a", utf8 |-> TRUE]}

\* Below the header and footer of "bb" (111 + 23), room for one header,
\* room for two headers and a long line.
MainCapacities == {100, 200, 300}

\* main.rs create_page_header
main_create_page_header(repository_name, file_path, page_number) ==
    "# repcon_repository_name: " \o repository_name
        \o "\n# repcon_file_name: " \o file_path
        \o "\n# repcon_page_number: " \o ToString(page_number)
        \o "\n// START OF CODE BLOCK: " \o file_path \o "\n"

\* main.rs create_page_footer
main_create_page_footer(file_path) == "// END OF CODE BLOCK: " \o file_path \o "\n"

\* The locals after page_header and page_header_size are computed: the
\* header as writeln! writes it, its size plus one, the footer of the
\* current file, and page_footer_size, computed once from the empty name.
MainPageFormat(file_path, page_number) ==
    [header      |-> main_create_page_header(RepositoryName, file_path, page_number) \o "\n",
     header_size |-> Len(main_create_page_header(RepositoryName, file_path, page_number)) + 1,
     footer      |-> main_create_page_footer(file_path),
     footer_size |-> Len(main_create_page_footer("")),
     file_path   |-> file_path,
     page_nubmer |-> page_number]

\* The message printed before exit(1).
TooSmallForMain(file) ==
    [file |-> file,
     text |-> "Error: The maximum file size (" \o ToString(max_output_file_size)
                \o ") is too small to contain the page header and footer."]

\* std::process::exit(1)
Exit == [tag |-> "exit", files |-> <<>>, error |-> "1"]

InitMain ==
    /\ NoWalk
    /\ NoUpload
    /\ target_files \in SeqsUpTo(MainPaths, MaxFiles)
    /\ target_files_root_path = <<>>
    /\ max_output_file_size \in MainCapacities
    /\ line_limit = MaxLines
    /\ earlier = NoEarlier
    /\ disk = <<>>
    /\ Entry

\* create_new_file with the next number; file_counter += 1, size = 0.
main_next_file(s) ==
    LET c == s.counter + 1
        p == output_path(OutputDirectory, c, RepositoryName)
    IN  [s EXCEPT !.counter = c,
                  !.size    = 0,
                  !.file    = p,
                  !.path    = p,
                  !.disk    = FileCreate(@, p),
                  !.log     = Append(@, CreateEvent(p))]

\* The first container is created.
MainStart ==
    /\ pc = "start"
    /\ LET p == output_path(OutputDirectory, output_file_counter, RepositoryName)
       IN  /\ output_file' = p
           /\ output_file_path' = p
           /\ disk' = FileCreate(disk, p)
           /\ log' = Append(log, CreateEvent(p))
    /\ pc' = "loop"
    /\ UNCHANGED <<args, walk, cli, stderr, file_index, output_file_counter,
                   current_output_file_size, generated_output_files,
                   page_format, source, ret>>

\* The header and footer of the file are above the capacity: exit(1).
MainHeaderTooLarge ==
    /\ InLoop
    /\ LET pf == MainPageFormat(target_files[file_index].bytes, 1)
       IN  /\ pf.header_size + pf.footer_size > max_output_file_size
           /\ page_format' = pf
    /\ stderr' = Append(stderr, TooSmallForMain(file_index))
    /\ ret' = Exit
    /\ pc' = "done"
    /\ UNCHANGED <<args, walk, cli, file_index, generated_output_files, output_file_counter,
                   current_output_file_size, output_file, output_file_path,
                   disk, log, source>>

\* The header does not fit the current container: the next container is
\* created and `continue` goes to the next file.
MainRollsOverBeforeHeader ==
    /\ InLoop
    /\ LET pf == MainPageFormat(target_files[file_index].bytes, 1)
       IN  /\ ~(pf.header_size + pf.footer_size > max_output_file_size)
           /\ current_output_file_size + pf.header_size > max_output_file_size
           /\ page_format' = pf
           /\ Store(main_next_file(Locals))
    /\ file_index' = file_index + 1
    /\ UNCHANGED <<pc, args, walk, cli, stderr, source, ret>>

\* The header is written; File::open fails and `?` returns the error.
MainOpenFails ==
    /\ InLoop
    /\ LET pf == MainPageFormat(target_files[file_index].bytes, 1)
       IN  /\ ~(pf.header_size + pf.footer_size > max_output_file_size)
           /\ ~(current_output_file_size + pf.header_size > max_output_file_size)
           /\ page_format' = pf
           /\ Store(write_header(Locals, pf, file_index))
    /\ ret' = Err("No such file or directory (os error 2)")
    /\ pc' = "done"
    /\ UNCHANGED <<args, walk, cli, stderr, file_index, source>>

\* The header is written and the file is opened.
MainHeader ==
    /\ InLoop
    /\ LET pf == MainPageFormat(target_files[file_index].bytes, 1)
       IN  /\ ~(pf.header_size + pf.footer_size > max_output_file_size)
           /\ ~(current_output_file_size + pf.header_size > max_output_file_size)
           /\ page_format' = pf
           /\ Store(write_header(Locals, pf, file_index))
    /\ source' = [source EXCEPT ![file_index].opened = TRUE]
    /\ pc' = "lines"
    /\ UNCHANGED <<args, walk, cli, stderr, file_index, ret>>

\* `let line = line?`: a read error is returned.
MainReadFails ==
    /\ pc = "lines"
    /\ source' = [source EXCEPT ![file_index].read_err = TRUE]
    /\ ret' = Err("stream did not contain valid UTF-8")
    /\ pc' = "done"
    /\ UNCHANGED <<args, walk, cli, stderr, file_index, generated_output_files,
                   output_file_counter, current_output_file_size, output_file,
                   output_file_path, page_format, disk, log>>

\* The line fits with page_footer_size after it.
MainLineFits ==
    /\ CanRead
    /\ \E line \in LineChoices :
        /\ ~line_needs_rollover(current_output_file_size, line_size_of(line),
                                page_format, max_output_file_size)
        /\ Store(write_line(Locals, page_format, file_index, line))
        /\ source' = [source EXCEPT ![file_index].lines = Append(@, line)]
    /\ UNCHANGED <<pc, args, walk, cli, stderr, file_index, page_format, ret>>

\* The line does not fit: footer, next container, next page, check (exit
\* when it fails), header, line.
MainLineRollsOver ==
    /\ CanRead
    /\ \E line \in LineChoices :
        /\ line_needs_rollover(current_output_file_size, line_size_of(line),
                               page_format, max_output_file_size)
        /\ source' = [source EXCEPT ![file_index].lines = Append(@, line)]
        /\ LET s1 == main_next_file(write_footer(Locals, page_format, file_index))
               pf == MainPageFormat(page_format.file_path, page_format.page_nubmer + 1)
           IN  /\ page_format' = pf
               /\ IF pf.header_size + pf.footer_size > max_output_file_size
                  THEN /\ Store(s1)
                       /\ stderr' = Append(stderr, TooSmallForMain(file_index))
                       /\ ret' = Exit
                       /\ pc' = "done"
                  ELSE /\ Store(write_line(write_header(s1, pf, file_index),
                                           pf, file_index, line))
                       /\ UNCHANGED <<pc, ret, stderr>>
    /\ UNCHANGED <<args, walk, cli, file_index>>

\* The reader is exhausted: the footer is written, the next file follows.
MainEndOfFile ==
    /\ pc = "lines"
    /\ source' = [source EXCEPT ![file_index].eof = TRUE]
    /\ Store(write_footer(Locals, page_format, file_index))
    /\ file_index' = file_index + 1
    /\ pc' = "loop"
    /\ UNCHANGED <<args, walk, cli, stderr, page_format, ret>>

\* Ok(())
MainFinish ==
    /\ pc = "loop"
    /\ file_index > Len(target_files)
    /\ ret' = Ok(<<>>)
    /\ pc' = "done"
    /\ UNCHANGED <<args, walk, cli, stderr, file_index, generated_output_files,
                   output_file_counter, current_output_file_size, output_file,
                   output_file_path, page_format, disk, log, source>>

NextMain ==
    \/ MainStart
    \/ MainHeaderTooLarge
    \/ MainRollsOverBeforeHeader
    \/ MainOpenFails
    \/ MainHeader
    \/ MainReadFails
    \/ MainLineFits
    \/ MainLineRollsOver
    \/ MainEndOfFile
    \/ MainFinish

SpecMain == InitMain /\ [][NextMain]_vars

\* ------------------------------------------------------------------ claims

\* C1: whenever split_files_into_chunks returns Ok, every generated
\* container holds at most max_output_file_size bytes (headers, footers and
\* body lines with their terminators).
C1_CapacityInvariant ==
    Succeeded => \A p \in DOMAIN disk : ContainerBytes(p) <= max_output_file_size

\* C2: in a successful run, for every file opened and read without a read
\* failure, the body lines of its pages, in container order and page order,
\* are exactly the file's lines, each once and in the original order, and
\* the files' pages appear in input-file order.
C2_Coverage ==
    Succeeded =>
        /\ \A i \in Files :
            (source[i].opened /\ ~source[i].read_err) =>
                /\ [k \in 1..Len(LineChunks(i)) |-> LineChunks(i)[k].text]
                       = [k \in 1..Len(source[i].lines) |-> source[i].lines[k] \o "\n"]
                /\ NonDecreasing([k \in 1..Len(LineChunks(i)) |-> LineChunks(i)[k].page])
        /\ NonDecreasing([k \in 1..Len(AllChunks) |-> AllChunks[k].file])

\* C2 witness: a successful run wrote a file of two different lines with a
\* rollover between them.
C2_Witness ==
    /\ Succeeded
    /\ \E i \in Files :
        /\ source[i].opened /\ ~source[i].read_err
        /\ Len(source[i].lines) >= 2
        /\ source[i].lines[1] # source[i].lines[2]
        /\ Len(LineChunks(i)) >= 2
        /\ LineChunks(i)[1].page # LineChunks(i)[2].page

SamePage(a, b) == a.file = b.file /\ a.page = b.page

\* Chunk j of `chunks` stands where the page framing lets it stand.
FramedAt(chunks, j) ==
    LET c == chunks[j]
        opensBefore == /\ j > 1
                       /\ chunks[j - 1].kind \in {"header", "line"}
                       /\ SamePage(chunks[j - 1], c)
        closesAfter == /\ j < Len(chunks)
                       /\ chunks[j + 1].kind \in {"line", "footer"}
                       /\ SamePage(chunks[j + 1], c)
    IN  CASE c.kind = "header" -> (j > 1 => chunks[j - 1].kind = "footer") /\ closesAfter
          [] c.kind = "line"   -> opensBefore /\ closesAfter
          [] c.kind = "footer" -> opensBefore
          [] OTHER             -> FALSE

\* The chunks are a concatenation of complete pages.
CompletePages(chunks) == \A j \in 1..Len(chunks) : FramedAt(chunks, j)

\* C3: in a successful run every container is a concatenation of complete
\* pages: a header, body lines of the same file and page, one footer of the
\* same file and page, and nothing outside such a pair.
C3_Framing ==
    Succeeded => \A p \in DOMAIN disk : CompletePages(disk[p])

\* C3 witness: a successful run ended a page at a mid-file rollover and put
\* two pages into one container.
C3_Witness ==
    /\ Succeeded
    /\ \E p \in DOMAIN disk : \E j \in 1..Len(disk[p]) :
        /\ disk[p][j].kind = "header" /\ j > 1
    /\ \E p \in DOMAIN disk : \E j \in 1..Len(disk[p]) :
        /\ disk[p][j].kind = "line" /\ disk[p][j].page = 2

\* C4: the headers written for a file carry the page numbers 1, 2, .., k in
\* the order written, whatever rollover came before the first one.
C4_PageNumbers ==
    \A i \in Files :
        LET headers == HeaderWrites(i)
        IN  /\ [k \in 1..Len(headers) |-> headers[k].chunk.text]
                   = [k \in 1..Len(headers) |-> create_page_header(Identifier(i), k)]
            /\ (source[i].opened /\ ~Failed) => Len(headers) >= 1

\* C4 witness: the second file of a run reached page 2 after a rollover
\* before its first header.
C4_Witness ==
    /\ Len(target_files) >= 2
    /\ Len(HeaderWrites(2)) >= 2
    /\ Len(HeaderWrites(1)) >= 1
    /\ HeaderWrites(2)[1].path # HeaderWrites(1)[Len(HeaderWrites(1))].path

\* The names <output_name>_1.txt .. <output_name>_n.txt, in order.
NumberedNames(n) == [k \in 1..n |-> output_path(OutputDirectory, k, OutputName)]

\* C5: the list returned is <output_name>_1.txt, .., <output_name>_n.txt in
\* this order, n being the number of containers created in the run.
C5_ResultList ==
    Succeeded =>
        /\ ret.files = NumberedNames(Cardinality(DOMAIN disk))
        /\ SelectSeq(log, LAMBDA e : e.op = "create")
               = [k \in 1..Len(ret.files) |-> CreateEvent(ret.files[k])]

\* C5 witness: a successful run with a rollover before a header and a
\* mid-file rollover.
C5_Witness ==
    /\ Succeeded
    /\ Len(ret.files) >= 3
    /\ \E p \in DOMAIN disk : disk[p] # <<>> /\ disk[p][1].page = 1
                              /\ p # output_path(OutputDirectory, 1, OutputName)
    /\ \E p \in DOMAIN disk : disk[p] # <<>> /\ disk[p][1].page = 2

\* C6: an empty file list gives Ok with the one container <output_name>_1.txt
\* holding zero bytes, for any capacity; the list of a successful run is
\* never empty.
C6_EmptyInput ==
    /\ Succeeded => Len(ret.files) >= 1
    /\ (Returned /\ target_files = <<>>) =>
        /\ ret = Ok(<<output_path(OutputDirectory, 1, OutputName)>>)
        /\ DOMAIN disk = {output_path(OutputDirectory, 1, OutputName)}
        /\ ContainerBytes(output_path(OutputDirectory, 1, OutputName)) = 0

\* C6 witness: the run over the empty list has returned, under the smallest
\* capacity.
C6_Witness ==
    /\ Returned
    /\ target_files = <<>>
    /\ \A c \in Capacities : max_output_file_size <= c


\* C7 as stated: when the capacity is below the page-1 header+footer of the
\* first input file (taken here as a file that opens), the run ends in the
\* fatal configuration failure and no output container exists.
C7_NoContainerProduced ==
    (Returned /\ target_files # <<>> /\ source[1].opened
              /\ FrameSize(1) > max_output_file_size) =>
        /\ Failed
        /\ DOMAIN disk = {}

\* C7 amended: when the first input file opens and the capacity is below
\* its page-1 header+footer, the run ends in the fatal configuration
\* failure with no result list and nothing written; the first container
\* has been created before the check and is left behind, empty, as the only
\* container.
C7_EmptyFirstContainerLeft ==
    (target_files # <<>> /\ source[1].opened
        /\ FrameSize(1) > max_output_file_size) =>
        /\ Returned
        /\ ret = Err("The maximum file size is too small to contain the page header and footer.")
        /\ DOMAIN disk = {output_path(OutputDirectory, 1, OutputName)}
        /\ ContainerBytes(output_path(OutputDirectory, 1, OutputName)) = 0

\* C7 witness: the run failed at its first file, which opened, under the
\* smallest capacity.
C7_Witness ==
    /\ Returned /\ Failed
    /\ target_files # <<>> /\ source[1].opened
    /\ FrameSize(1) > max_output_file_size
    /\ \A c \in Capacities : max_output_file_size <= c

\* C8: a file that opens, at any position, whose page-1 header+footer
\* exceeds the capacity ends the run with Err at once: nothing of that file
\* is written, no later file is touched, no list is returned.
C8_FatalAtAnyFile ==
    \A i \in Files :
        (source[i].opened /\ FrameSize(i) > max_output_file_size) =>
            /\ Returned /\ Failed
            /\ ret.files = <<>>
            /\ file_index = i
            /\ \A k \in 1..Len(log) : log[k].chunk.file < i
            /\ \A p \in DOMAIN disk : \A k \in 1..Len(disk[p]) : disk[p][k].file < i
            /\ \A j \in Files : j > i => source[j] = NoSource

\* C8 witness: the run failed at its second file after the first one was
\* written, and a container list existed that is not returned.
C8_Witness ==
    /\ Returned /\ Failed
    /\ file_index = 2
    /\ source[2].opened /\ FrameSize(2) > max_output_file_size
    /\ \E k \in 1..Len(log) : log[k].chunk.kind = "footer" /\ log[k].chunk.file = 1
    /\ generated_output_files # <<>>

\* The step that skips target file file_index: the loop moves on from its
\* head and the file was not opened.
SkipStep ==
    /\ pc = "loop"
    /\ file_index' = file_index + 1
    /\ ~source'[file_index].opened

\* C9: a file that cannot be opened changes nothing in the pagination
\* state (containers, counters, result list); the loop goes on with the
\* next file; the failure never fails the run.
C9_SkipChangesNothing ==
    /\ [][SkipStep =>
            /\ UNCHANGED <<disk, log, generated_output_files, output_file_counter,
                           current_output_file_size, output_file, output_file_path,
                           ret>>
            /\ pc' = "loop"]_vars
    /\ [](Failed => (~target_files[file_index].utf8 \/ source[file_index].opened))
    /\ []((Returned /\ file_index > Len(target_files)) => Succeeded)

\* C9 witness: a successful run skipped its first file, with a valid path,
\* and wrote its second.
C9_Witness ==
    /\ Succeeded
    /\ Len(target_files) >= 2
    /\ target_files[1].utf8 /\ ~source[1].opened
    /\ source[2].opened /\ Len(source[2].lines) >= 1

IsFooterOf(i, c) == c.kind = "footer" /\ c.file = i

\* The last page of target file i is closed in the container of its header.
LastPageClosed(i) ==
    LET last == Len(HeaderWrites(i))
    IN  /\ last >= 1
        /\ \E p \in DOMAIN disk : \E h, f \in 1..Len(disk[p]) :
            /\ h < f
            /\ IsHeaderOf(i, disk[p][h]) /\ disk[p][h].page = last
            /\ IsFooterOf(i, disk[p][f]) /\ disk[p][f].page = last
            /\ disk[p][f].text = create_page_footer(Identifier(i))
            /\ \A k \in (h + 1)..(f - 1) : IsLineOf(i, disk[p][k])
        /\ Len(SelectSeq(AllChunks, LAMBDA c : IsFooterOf(i, c))) = last

\* C10: after a read failure the lines already written stay, no further
\* line of the file is read or written, the page is closed by its footer in
\* the container of its header, the later files are handled as usual and
\* the failure does not fail the run.
C10_ReadFailure ==
    \A i \in Files :
        source[i].read_err =>
            /\ [k \in 1..Len(LineChunks(i)) |-> LineChunks(i)[k].text]
                   = [k \in 1..Len(source[i].lines) |-> source[i].lines[k] \o "\n"]
            /\ ~Passed(i) => (file_index = i /\ pc = "footer" /\ ~Returned)
            /\ Passed(i) => LastPageClosed(i)
            /\ (Passed(i) /\ pc = "loop") => \A p \in DOMAIN disk : CompletePages(disk[p])
            /\ \A j \in Files :
                (j > i /\ Passed(j) /\ source[j].opened /\ ~source[j].read_err) =>
                    /\ LastPageClosed(j)
                    /\ [k \in 1..Len(LineChunks(j)) |-> LineChunks(j)[k].text]
                           = [k \in 1..Len(source[j].lines) |-> source[j].lines[k] \o "\n"]
            /\ (Returned /\ file_index > Len(target_files)) => Succeeded

\* C10 witness: a successful run in which the first file failed to read
\* after a line was written, and the second file was written with a line.
C10_Witness ==
    /\ Succeeded
    /\ Len(target_files) >= 2
    /\ source[1].read_err /\ Len(source[1].lines) >= 1
    /\ source[2].opened /\ source[2].eof /\ Len(source[2].lines) >= 1


RECURSIVE LineBytes(_)
LineBytes(lines) ==
    IF lines = <<>> THEN 0 ELSE Len(Head(lines)) + 1 + LineBytes(Tail(lines))

\* The page-1 header and all the lines read of target file i, in bytes.
OpenPageSize(i) ==
    Len(create_page_header(Identifier(i), 1)) + LineBytes(source[i].lines)

\* The complete single page of target file i: header, lines read, footer.
PageSize(i) == OpenPageSize(i) + Len(create_page_footer(Identifier(i)))

\* The one page of target file i, as chunks.
SinglePage(i) ==
    <<Chunk("header", i, 1, create_page_header(Identifier(i), 1))>>
        \o [k \in 1..Len(source[i].lines) |-> Chunk("line", i, 1, source[i].lines[k] \o "\n")]
        \o <<Chunk("footer", i, 1, create_page_footer(Identifier(i)))>>

\* Every target file was opened and read to its end.
AllRead == \A i \in Files : source[i].opened /\ source[i].eof

EveryPageFits == \A i \in Files : PageSize(i) <= max_output_file_size

\* One container per target file, container k holding the page of file k.
OneContainerPerFile ==
    /\ Len(ret.files) = Len(target_files)
    /\ \A k \in Files :
        /\ disk[ret.files[k]] = SinglePage(k)
        /\ ContainerBytes(ret.files[k]) <= max_output_file_size

RECURSIVE SumPages(_)
SumPages(n) == IF n = 0 THEN 0 ELSE SumPages(n - 1) + (IF source[n].opened THEN PageSize(n) ELSE 0)

RECURSIVE PagesUpTo(_)
PagesUpTo(n) ==
    IF n = 0 THEN <<>>
    ELSE PagesUpTo(n - 1) \o (IF source[n].opened THEN SinglePage(n) ELSE <<>>)

\* C12: when the single pages of all the files (page-1 header, lines,
\* footer) sum to at most the capacity, the run makes one container and no
\* rollover, and the container holds every file's page 1 in input order.
C12_SingleContainer ==
    (Succeeded /\ SumPages(Len(target_files)) <= max_output_file_size) =>
        /\ ret.files = <<output_path(OutputDirectory, 1, OutputName)>>
        /\ output_file_counter = 1
        /\ DOMAIN disk = {output_path(OutputDirectory, 1, OutputName)}
        /\ disk[ret.files[1]] = PagesUpTo(Len(target_files))

\* C12 witness: a successful run over two files, with a line, whose pages
\* sum to at most the capacity.
C12_Witness ==
    /\ Succeeded
    /\ SumPages(Len(target_files)) <= max_output_file_size
    /\ Len(target_files) = 2
    /\ source[1].opened /\ source[2].opened
    /\ source[2].lines # <<>>


InvalidUtf8 == Err("Target File path contains invalid UTF-8 characters")

\* The loop is about to take target file i, whose path is not UTF-8.
AtInvalidPath(i) == InLoop /\ file_index = i /\ ~target_files[i].utf8

\* Nothing of target file i is in a container, nor was it opened or reported.
Untouched(i) ==
    /\ source[i] = NoSource
    /\ \A p \in DOMAIN disk : \A k \in 1..Len(disk[p]) : disk[p][k].file # i
    /\ \A k \in 1..Len(stderr) : stderr[k].file # i

\* C13: when the loop takes a file whose path is not valid UTF-8, the run
\* returns Err at that step, without opening the file and without writing
\* anything; nothing is ever written for that file or a later one, and a
\* run over such a path never returns Ok.
C13_InvalidPathIsFatal ==
    /\ [][\A i \in Files : AtInvalidPath(i) =>
            /\ ret' = InvalidUtf8
            /\ pc' = "done"
            /\ file_index' = i
            /\ UNCHANGED <<disk, log, source, stderr, generated_output_files>>]_vars
    /\ [](\A i \in Files : ~target_files[i].utf8 =>
            /\ file_index <= i
            /\ \A j \in Files : j >= i => Untouched(j)
            /\ Returned => Failed)

\* C13 witness: the run has returned the UTF-8 error at the second file,
\* after the first file's page was written.
C13_Witness ==
    /\ Returned /\ ret = InvalidUtf8
    /\ file_index = 2
    /\ ~target_files[2].utf8
    /\ source[1].opened
    /\ AllChunks # <<>>


\* Target file i was skipped: the loop went past it without opening it.
Skipped(i) == Passed(i) /\ ~source[i].opened

\* The remaining lines of target file i were abandoned at a read failure.
Truncated(i) == source[i].read_err

\* The records on the error channel that are about target file i.
RecordsOf(i) == SelectSeq(stderr, LAMBDA r : r.file = i)

\* C15: every file skipped because it cannot be opened, and every file
\* whose remaining lines are abandoned at a read failure, has exactly one
\* record on the error channel, naming its path; a file that is neither
\* has none, so no file is skipped or truncated without a record.
C15_AbandonmentReported ==
    \A i \in Files :
        /\ Skipped(i) => RecordsOf(i) = <<OpenFailure(i, target_files[i])>>
        /\ Truncated(i) => RecordsOf(i) = <<ReadFailure(i, target_files[i])>>
        /\ (~Skipped(i) /\ ~Truncated(i)) => RecordsOf(i) = <<>>

\* C15 witness: a successful run in which the first file was skipped and
\* the second was cut at a read failure after a line.
C15_Witness ==
    /\ Returned /\ Succeeded
    /\ Len(target_files) = 2
    /\ Skipped(1)
    /\ Truncated(2) /\ source[2].lines # <<>>
    /\ Len(stderr) = 2


\* The last thing the run did to a container was a write.
AfterWrite == log # <<>> /\ log[Len(log)].op = "write"

\* C17: after every write of a header, a line or a footer, the counter
\* current_output_file_size equals the bytes written so far to the open
\* container (so a footer raises it by the footer's size).
C17_CounterMatchesBytes ==
    AfterWrite => current_output_file_size = ContainerBytes(output_file)


\* The last write was a page-1 header put after other content of a container.
AfterFirstHeaderInUsedContainer ==
    /\ AfterWrite
    /\ log[Len(log)].chunk.kind = "header"
    /\ log[Len(log)].chunk.page = 1
    /\ Len(disk[output_file]) > 1

\* C18: when a file's page-1 header is written into a container that
\* already holds content, the bytes present in the container before it,
\* plus that header and the file's footer, are within the capacity.
C18_HeaderLeavesRoomForFooter ==
    AfterFirstHeaderInUsedContainer =>
        ContainerBytes(output_file) + page_format.footer_size <= max_output_file_size


\* A step of the lines loop that opens a new container: a mid-file rollover.
MidFileRollover ==
    /\ pc = "lines"
    /\ output_file_counter' = output_file_counter + 1

\* The events a step has added to the log.
NewEvents == SubSeq(log', Len(log) + 1, Len(log'))

\* The line a step has read from the current target file.
LineRead == source'[file_index].lines[Len(source'[file_index].lines)]

\* The container most recently created before event k of the log.
OpenAt(k) ==
    LET created == {j \in 1..k : log[j].op = "create"}
    IN  log[CHOOSE j \in created : \A h \in created : h <= j].path

TooSmall == Err("The maximum file size is too small to contain the page header and footer.")

\* The header and footer of the page after the current one.
NextFrameSize ==
    get_page_header_size(increment_page_number(page_format))
        + get_page_footer_size(increment_page_number(page_format))

\* C20: at every page advance the new page's header and footer are
\* checked against the capacity before the header is written: when they
\* exceed it (a file whose page-1 frame fits reaching page 10) the run
\* returns Err and the new container is left without that header; when
\* they fit the header is written. No header on disk exceeds the capacity
\* together with its file's footer.
C20_CheckAfterAdvance ==
    /\ [][MidFileRollover =>
            /\ page_format' = increment_page_number(page_format)
            /\ IF NextFrameSize > max_output_file_size
               THEN /\ ret' = TooSmall
                    /\ pc' = "done"
                    /\ disk'[output_file'] = <<>>
                    /\ \A k \in 1..Len(NewEvents) :
                          NewEvents[k].chunk.kind # "header"
               ELSE /\ ret' = ret
                    /\ pc' = "lines"
                    /\ disk'[output_file'][1] =
                          Chunk("header", file_index, page_format.page_nubmer + 1,
                                create_page_header(page_format.file_path,
                                                   page_format.page_nubmer + 1))]_vars
    /\ [](\A p \in DOMAIN disk : \A k \in 1..Len(disk[p]) :
            disk[p][k].kind = "header" =>
                Len(disk[p][k].text) + Len(create_page_footer(Identifier(disk[p][k].file)))
                    <= max_output_file_size)

\* C20 witness: the file's page-1 header and footer fit, nine pages were
\* written, and the run has returned Err at the advance to page 10, whose
\* container is empty.
C20_Witness ==
    /\ Returned /\ ret = TooSmall
    /\ FrameSize(1) <= max_output_file_size
    /\ page_format.page_nubmer = 10
    /\ Len(HeaderWrites(1)) = 9
    /\ disk[output_file] = <<>>


\* C14: a second run with the same file list and contents, root, output
\* directory, capacity and output name returns what the first returned
\* (the same list of container names) and leaves the same containers with
\* the same content: the names are overwritten and none is added.
C14_RerunSameResult ==
    (earlier.ran /\ Returned) =>
        /\ ret = earlier.ret
        /\ DOMAIN disk = DOMAIN earlier.disk
        /\ disk = earlier.disk

\* C14 witness: a second run has returned Ok with two containers that
\* hold content, as the first did.
C14_Witness ==
    /\ earlier.ran /\ Returned /\ Succeeded
    /\ Len(ret.files) = 2
    /\ \A k \in 1..2 : earlier.disk[ret.files[k]] # <<>>


Range(seq) == {seq[k] : k \in 1..Len(seq)}

\* The patterns of the arguments and of the lines of the repconignore
\* file that are neither blank nor start with '#'.
AllPatterns ==
    Range(ignore_patterns)
        \cup (IF reconignore_path.given /\ reconignore_path.exists
              THEN {l \in Range(reconignore_path.lines) :
                        (\E k \in 1..Len(l) : SubSeq(l, k, k) # " ") /\ ~StartsWith(l, "#")}
              ELSE {})

\* A pattern matches a file by its name, or by the name of its directory.
PatternMatches(pattern, e) ==
    GlobMatch(pattern, e.name) \/ (e.parent # "" /\ GlobMatch(pattern, e.parent))

\* The regular files under dir that match none of the patterns.
Unmatched ==
    {e \in dir : e.kind = "file" /\ \A pattern \in AllPatterns : ~PatternMatches(pattern, e)}

RECURSIVE SetSize(_)
SetSize(set) ==
    IF set = {} THEN 0
    ELSE LET e == CHOOSE x \in set : TRUE IN e.size + SetSize(set \ {e})

UnmatchedAndVisible ==
    {e \in Unmatched :
        /\ ~StartsWith(e.name, ".")
        /\ ~StartsWith(e.parent, ".")
        /\ ~e.listed}

TakesLine ==
    /\ pc = "lines"
    /\ Len(source'[file_index].lines) = Len(source[file_index].lines) + 1

\* A step that has opened a target file and gone on to its header.
TakesFile == pc = "loop" /\ page_format' # page_format

\* C21: both rollover tests are strict. A line whose size (its bytes plus
\* one) with the counter and the footer equals the capacity is written to
\* the current container, and a file whose header and footer with the
\* counter equal the capacity gets its header there; a new container is
\* opened exactly when the sum is above the capacity.
C21_StrictRolloverTests ==
    [][/\ TakesLine =>
            LET sum == current_output_file_size + Len(LineRead) + 1
                            + Len(page_format.footer)
            IN  /\ (output_file_counter' = output_file_counter + 1) <=> (sum > max_output_file_size)
                /\ (sum <= max_output_file_size) =>
                      /\ UNCHANGED <<output_file, output_file_counter, page_format>>
                      /\ current_output_file_size' = current_output_file_size + Len(LineRead) + 1
                      /\ disk' = [disk EXCEPT ![output_file] =
                            Append(@, Chunk("line", file_index, page_format.page_nubmer,
                                            LineRead \o "\n"))]
       /\ (TakesFile /\ pc' = "lines") =>
            LET sum == current_output_file_size + Len(page_format'.header)
                            + Len(page_format'.footer)
            IN  /\ (output_file_counter' = output_file_counter + 1) <=> (sum > max_output_file_size)
                /\ (sum <= max_output_file_size) =>
                      /\ UNCHANGED <<output_file, output_file_counter>>
                      /\ disk' = [disk EXCEPT ![output_file] =
                            Append(@, Chunk("header", file_index, 1, page_format'.header))]]_vars

\* C21 witness: a line has just been written to the first container
\* whose size, with the counter and the footer, was exactly the capacity.
C21_Witness ==
    /\ pc = "lines"
    /\ output_file_counter = 1
    /\ AfterWrite /\ log[Len(log)].chunk.kind = "line"
    /\ current_output_file_size + page_format.footer_size = max_output_file_size


\* C22: PageFormat::new sets page 1; each increment_page_number raises
\* the page number by exactly one and leaves file_path and the footer
\* text as they were; at all times the header is create_page_header of
\* file_path and the page number, and header_size and footer_size are the
\* byte lengths of the current header and footer, as the two getters give.
C22_PageFormatConsistent ==
    /\ [](page_format # NoPageFormat =>
            /\ page_format.page_nubmer >= 1
            /\ page_format.header =
                  create_page_header(page_format.file_path, page_format.page_nubmer)
            /\ page_format.footer = create_page_footer(page_format.file_path)
            /\ page_format.header_size = Len(page_format.header)
            /\ page_format.footer_size = Len(page_format.footer)
            /\ page_format.header_size = get_page_header_size(page_format)
            /\ page_format.footer_size = get_page_footer_size(page_format))
    /\ [][page_format' # page_format =>
            IF pc = "loop"
            THEN /\ page_format'.page_nubmer = 1
                 /\ page_format'.file_path = Identifier(file_index)
            ELSE /\ page_format'.page_nubmer = page_format.page_nubmer + 1
                 /\ page_format'.file_path = page_format.file_path
                 /\ page_format'.footer = page_format.footer]_vars

\* C22 witness: new and nine increments later the page is 10, and the
\* header is a byte longer than the header of page 1 was.
C22_Witness ==
    /\ page_format.page_nubmer = 10
    /\ page_format.header_size = Len(create_page_header(page_format.file_path, 1)) + 1
    /\ page_format.footer_size = Len(create_page_footer(page_format.file_path))


\* The three header lines, each followed by one line terminator.
ThreeHeaderLines(identifier, n) ==
    "# repcon_file_name: " \o identifier \o "\n"
        \o "# repcon_page_number: " \o ToString(n) \o "\n"
        \o "// START OF CODE BLOCK: " \o identifier \o "\n"

\* The footer line without its ending.
FooterLine(identifier) == "// END OF CODE BLOCK: " \o identifier

\* Every footer and header written to a container, and the current
\* PageFormat, are the footer line with the given ending and the three
\* header lines, and the sizes held are their byte lengths.
Rendered(ending) ==
    /\ page_format # NoPageFormat =>
            /\ page_format.footer = FooterLine(page_format.file_path) \o ending
            /\ page_format.header =
                  ThreeHeaderLines(page_format.file_path, page_format.page_nubmer)
            /\ page_format.footer_size = Len(page_format.footer)
            /\ page_format.header_size = Len(page_format.header)
    /\ \A p \in DOMAIN disk : \A k \in 1..Len(disk[p]) :
            LET c == disk[p][k]
            IN  /\ c.kind = "footer" => c.text = FooterLine(Identifier(c.file)) \o ending
                /\ c.kind = "header" => c.text = ThreeHeaderLines(Identifier(c.file), c.page)

\* C23 as stated: the footer is the line '// END OF CODE BLOCK: <id>'
\* with one line terminator and nothing else, the header is the three
\* lines with one terminator each, and the sizes are their byte lengths.
C23_FooterIsOneLine == Rendered("\n")

\* C23 amended: the footer is the line '// END OF CODE BLOCK: <id>' with
\* its line terminator and one more (an empty line after it), the header
\* is the three lines with one terminator each, and footer_size and
\* header_size are the byte lengths of these texts, the footer's second
\* terminator counted.
C23_FooterIsLineAndEmptyLine == Rendered("\n\n")

\* C23 witness: a footer of page 1 and a header of page 2 are in the
\* containers, for a file whose identifier is its path without the root.
C23_Witness ==
    /\ target_files_root_path # <<>>
    /\ page_format.page_nubmer = 2
    /\ page_format.file_path = "a"
    /\ \E p \in DOMAIN disk : \E k \in 1..Len(disk[p]) : disk[p][k].kind = "footer"
    /\ disk[output_file] # <<>> /\ disk[output_file][1].kind = "header"


\* Target file i has its header, every line read of it and its footer in
\* the containers.
Written(i) ==
    /\ \E p \in DOMAIN disk : \E k \in 1..Len(disk[p]) : IsHeaderOf(i, disk[p][k])
    /\ \E p \in DOMAIN disk : \E k \in 1..Len(disk[p]) : IsFooterOf(i, disk[p][k])
    /\ Len(SelectSeq(log, LAMBDA e : e.op = "write" /\ IsLineOf(i, e.chunk)))
            = Len(source[i].lines)

\* C24: in the binary's own routine, a container opened because a file's
\* header did not fit begins with that file's header, and the file's lines
\* and footer follow: every file the loop has gone past has its header,
\* its lines and its footer in the containers.
C24_NoFileDroppedAtRollover ==
    /\ \A i \in Files : Passed(i) => Written(i)
    /\ \A p \in DOMAIN disk :
            (pc = "loop" /\ p # output_path(OutputDirectory, 1, RepositoryName))
                => disk[p] # <<>>


\* A line of the given byte length is too long for an otherwise empty
\* page of target file i: page-1 header, the line and its terminator, and
\* the footer are above the capacity.
Oversized(i, length) == FrameSize(i) + length + 1 > max_output_file_size

\* The step has opened a container and put the next page's header and the
\* line read, whole and once, at its start; the run goes on.
LineOpensItsOwnPage ==
    /\ output_file_counter' = output_file_counter + 1
    /\ pc' = "lines"
    /\ ret' = ret
    /\ disk'[output_file'] =
          <<Chunk("header", file_index, page_format.page_nubmer + 1,
                  create_page_header(page_format.file_path, page_format.page_nubmer + 1)),
            Chunk("line", file_index, page_format.page_nubmer + 1, LineRead \o "\n")>>
    /\ Len(SelectSeq(NewEvents, LAMBDA e : e.chunk.kind = "line")) = 1

\* Every oversized line in a container is the second chunk, after the
\* header of its page, and nothing but the footer of its file follows it
\* on that page; once the footer is there the page is above the capacity.
OversizedLinesAlone ==
    \A p \in DOMAIN disk : \A k \in 1..Len(disk[p]) :
        LET c == disk[p][k]
        IN  (c.kind = "line" /\ Oversized(c.file, Len(c.text) - 1)) =>
                /\ k = 2
                /\ disk[p][1].kind = "header"
                /\ disk[p][1].file = c.file /\ disk[p][1].page = c.page
                /\ Len(disk[p]) > 2 =>
                      /\ IsFooterOf(c.file, disk[p][3])
                      /\ Len(disk[p][1].text) + Len(c.text) + Len(disk[p][3].text)
                            > max_output_file_size

\* C25 as stated: a line too long for an empty page never fails the run;
\* it always opens a new container, where it is written whole and once
\* right after the header, alone on its page, and that page is above the
\* capacity.
C25_OversizedLineNeverFails ==
    /\ [][(TakesLine /\ Oversized(file_index, Len(LineRead))) => LineOpensItsOwnPage]_vars
    /\ []OversizedLinesAlone

\* C25 amended: a line too long for an empty page always causes a
\* mid-file rollover; when the header and footer of the page it opens are
\* within the capacity the run goes on and the line is written whole and
\* once right after the header of the new container, alone on its page,
\* which is above the capacity; when they are not (the page number gained
\* a digit) the run returns Err and the line is not written.
C25_OversizedLineOpensItsOwnPage ==
    /\ [][(TakesLine /\ Oversized(file_index, Len(LineRead))) =>
            /\ MidFileRollover
            /\ IF NextFrameSize <= max_output_file_size
               THEN LineOpensItsOwnPage
               ELSE /\ ret' = TooSmall
                    /\ disk'[output_file'] = <<>>]_vars
    /\ []OversizedLinesAlone

\* C25 witness: an oversized line is alone between the header and the
\* footer of a page in a container of its own, and the run has succeeded.
C25_Witness ==
    /\ Returned /\ Succeeded
    /\ \E p \in DOMAIN disk :
          /\ Len(disk[p]) = 3
          /\ disk[p][2].kind = "line"
          /\ Oversized(1, Len(disk[p][2].text) - 1)
          /\ disk[p][3].kind = "footer"
          /\ ContainerBytes(p) > max_output_file_size


\* Every line read of target file i fits an otherwise empty page of every
\* page number the run has reached: header, line and terminator, footer.
EveryLineFitsAPage(i) ==
    \A k \in 1..Len(source[i].lines) : \A q \in 1..page_format.page_nubmer :
        Len(create_page_header(Identifier(i), q)) + Len(source[i].lines[k]) + 1
            + Len(create_page_footer(Identifier(i))) <= max_output_file_size

\* C26: in a run over a single file that was opened, in which every line
\* fits an otherwise empty page of every page number reached, every
\* container holds at most the capacity, and between lines the bytes of
\* the current container and the footer together are within the capacity.
C26_SingleFileWithinCapacity ==
    (Len(target_files) = 1 /\ source[1].opened /\ EveryLineFitsAPage(1)) =>
        /\ \A p \in DOMAIN disk : ContainerBytes(p) <= max_output_file_size
        /\ pc = "lines" =>
              ContainerBytes(output_file) + Len(create_page_footer(Identifier(1)))
                  <= max_output_file_size

\* C26 witness: a successful run over one file whose lines all fit a page
\* has filled more than two containers, the last of them to the capacity.
C26_Witness ==
    /\ Returned /\ Succeeded
    /\ Len(target_files) = 1 /\ source[1].opened /\ EveryLineFitsAPage(1)
    /\ Len(source[1].lines) >= 3
    /\ Len(ret.files) >= 3
    /\ ContainerBytes(output_file) = max_output_file_size


\* The footers in the current container, each the closing footer of a file.
ClosingFootersHere == SelectSeq(disk[output_file], LAMBDA c : c.kind = "footer")

RECURSIVE FooterSizes(_)
FooterSizes(chunks) ==
    IF chunks = <<>> THEN 0
    ELSE Len(create_page_footer(Identifier(Head(chunks).file))) + FooterSizes(Tail(chunks))

\* C27: once the first container is open, the counter is never above the
\* bytes in the current container, and the bytes above the counter are
\* exactly the footers of the files whose closing footer was written into
\* the current container.
C27_CounterShortByClosingFooters ==
    pc # "start" =>
        /\ current_output_file_size <= ContainerBytes(output_file)
        /\ ContainerBytes(output_file) - current_output_file_size
              = FooterSizes(ClosingFootersHere)

\* C27 witness: the second file is being read in a container that holds
\* the closing footer of the first, and a line of it has been written.
C27_Witness ==
    /\ pc = "lines"
    /\ file_index = 2
    /\ Len(ClosingFootersHere) = 1
    /\ AfterWrite /\ log[Len(log)].chunk.kind = "line"
    /\ ContainerBytes(output_file) > current_output_file_size


\* The highest page number target file i has reached: the page held when
\* the run is at the file, the pages written once it is past it.
PagesReached(i) ==
    IF file_index = i THEN page_format.page_nubmer ELSE Len(HeaderWrites(i))

\* Target file i was opened, and at page 1 or at a page it reached its
\* header and footer are above the capacity.
FrameTooLarge(i) ==
    /\ source[i].opened
    /\ \E q \in 1..PagesReached(i) :
          Len(create_page_header(Identifier(i), q)) + Len(create_page_footer(Identifier(i)))
              > max_output_file_size

AllUtf8 == \A i \in Files : target_files[i].utf8

\* C28: with valid UTF-8 paths, the run returns Err exactly when some
\* opened file has a header and footer above the capacity at page 1 or at
\* a page it reaches by rollover; a file that cannot be opened is never
\* checked, so a run with no opened file returns Ok at any capacity, zero
\* included.
C28_ErrIffFrameTooLarge ==
    (Returned /\ AllUtf8) =>
        /\ Failed <=> (\E i \in Files : FrameTooLarge(i))
        /\ Failed => ret = TooSmall
        /\ (\A i \in Files : ~source[i].opened) => Succeeded

\* C28 witness: a run over two files that could not be opened has
\* returned Ok at capacity zero.
C28_Witness ==
    /\ Returned /\ Succeeded
    /\ max_output_file_size = 0
    /\ Len(target_files) = 2 /\ AllUtf8
    /\ \A i \in Files : Skipped(i)


FirstContainer == output_path(OutputDirectory, 1, OutputName)

\* Every header of a page 2 or higher is followed by a line of that page.
LaterPagesHaveALine ==
    \A p \in DOMAIN disk : \A k \in 1..Len(disk[p]) :
        (disk[p][k].kind = "header" /\ disk[p][k].page >= 2) =>
            /\ k < Len(disk[p])
            /\ disk[p][k + 1].kind = "line"
            /\ disk[p][k + 1].file = disk[p][k].file
            /\ disk[p][k + 1].page = disk[p][k].page

BeginsWithHeader(p) == disk[p] # <<>> /\ disk[p][1].kind = "header"

\* In the result of a successful run no container is empty, unless no
\* file was opened.
NoEmptyResult ==
    (Returned /\ Succeeded /\ \E i \in Files : source[i].opened) =>
        \A k \in 1..Len(ret.files) : disk[ret.files[k]] # <<>>

\* C29 as stated: every page 2 or higher has a line, every container but
\* the first begins with a header (a rollover is always followed by a
\* header in the new container), and a successful run's result has no
\* empty container unless no file was opened.
C29_RolloverAlwaysWritesHeader ==
    /\ LaterPagesHaveALine
    /\ \A p \in DOMAIN disk : p # FirstContainer => BeginsWithHeader(p)
    /\ NoEmptyResult

\* C29 amended: every page 2 or higher has a line; every container but
\* the first begins with a header, except the container opened by a
\* mid-file rollover whose new page failed the check, which stays empty
\* as the run returns Err; and a successful run's result has no empty
\* container unless no file was opened.
C29_RolloverWritesHeaderUnlessFatal ==
    /\ LaterPagesHaveALine
    /\ \A p \in DOMAIN disk : p # FirstContainer =>
            \/ BeginsWithHeader(p)
            \/ Failed /\ p = output_file /\ disk[p] = <<>>
    /\ NoEmptyResult

\* C29 witness: a successful run has a container that begins with the
\* page-1 header of a file and one that begins with a page-2 header and
\* the line that caused the rollover.
C29_Witness ==
    /\ Returned /\ Succeeded
    /\ \E p, q \in DOMAIN disk :
          /\ p # FirstContainer /\ q # FirstContainer
          /\ BeginsWithHeader(p) /\ disk[p][1].page = 1
          /\ BeginsWithHeader(q) /\ disk[q][1].page = 2
          /\ disk[q][2].kind = "line"


\* The containers created so far.
ContainersCreated == Len(SelectSeq(log, LAMBDA e : e.op = "create"))

OpenedFiles == {i \in Files : source[i].opened}

\* C30: the run terminates, and the containers created are at most one,
\* plus one for each opened file, plus one for each line read.
C30_TerminatesWithBoundedContainers ==
    /\ <>Returned
    /\ [](ContainersCreated
            <= 1 + Cardinality(OpenedFiles) + LinesRead(Len(target_files)))

\* C30 witness: a run has returned after a rollover before the second
\* file and one at a line of each file: four containers for two opened
\* files and two lines.
C30_Witness ==
    /\ Returned /\ Succeeded
    /\ Cardinality(OpenedFiles) = 2
    /\ LinesRead(Len(target_files)) = 2
    /\ ContainersCreated = 4


\* ---------------------------------------------------------------- openai.rs

\* The API keys a call is given: distinct values, none of them a text the
\* function prints by itself.
MaxKeys == 3

Keys == {"sk-" \o ToString(k) : k \in 1..MaxKeys}

\* An Option is a sequence of at most one element: None is <<>>.
Some(x) == <<x>>

\* Option<Option<String>>: no --upload, --upload without a value, --upload KEY.
Uploads == {<<>>, Some(<<>>)} \cup {Some(Some(k)) : k \in Keys}

\* env::var("OPENAI_API_KEY"): Err (not set, or not Unicode) or Ok(key).
Environments == {<<>>} \cup {Some(k) : k \in Keys}

\* println!: the text and a newline, written to standard output.
println(text) == text \o "\n"

\* openai.rs lines 8-28: what upload_to_openai writes to standard output.
upload_to_openai(u, e) ==
    IF u # <<>> /\ u[1] # <<>>
    THEN <<println("Uploading with provided API key."),
           println(u[1][1])>>
    ELSE IF u # <<>>
    THEN IF e # <<>>
         THEN <<println("Uploading with API key from environment variable."),
                println(e[1])>>
         ELSE <<println("API key not specified and not found in environment. Skipping upload.")>>
    ELSE <<println("No upload option provided. Skipping upload.")>>

\* main.rs lines 220-240: the binary's own upload_to_openai.
main_upload_to_openai(u, e) ==
    IF u # <<>> /\ u[1] # <<>>
    THEN <<println("Uploading with provided API key."),
           println(u[1][1])>>
    ELSE IF u # <<>>
    THEN IF e # <<>>
         THEN <<println("Uploading with API key from environment variable."),
                println(e[1])>>
         ELSE <<println("API key not specified and not found in environment. Skipping upload.")>>
    ELSE <<println("No upload option provided. Skipping upload.")>>

\* The arm of the match a call takes.
UploadCase(u, e) ==
    IF u # <<>> /\ u[1] # <<>> THEN "provided"
    ELSE IF u # <<>> THEN (IF e # <<>> THEN "environment" ELSE "missing")
    ELSE "none"

\* The API key a call uses, if it uses one.
ApiKey(u, e) ==
    IF UploadCase(u, e) = "provided" THEN Some(u[1][1])
    ELSE IF UploadCase(u, e) = "environment" THEN Some(e[1])
    ELSE <<>>

InitUpload ==
    /\ NoWalk
    /\ target_files = <<>>
    /\ target_files_root_path = <<>>
    /\ max_output_file_size = 0
    /\ line_limit = 0
    /\ earlier = NoEarlier
    /\ disk = <<>>
    /\ Entry
    /\ upload \in Uploads
    /\ environment \in Environments
    /\ stdout = <<>>
    /\ upload_pc = "call"
    /\ other_call = NoOtherCall

\* openai.rs lines 8-28: upload_to_openai(&upload), returning Ok(()).
UploadToOpenai ==
    /\ upload_pc = "call"
    /\ stdout' = stdout \o upload_to_openai(upload, environment)
    /\ upload_pc' = "done"
    /\ UNCHANGED <<upload, environment, other_call>>
    /\ UNCHANGED <<pc, args, walk, file_index, generated_output_files, output_file_counter,
                   current_output_file_size, output_file, output_file_path,
                   page_format, disk, log, source, stderr, ret>>

\* main.rs lines 220-240 and 273: upload_to_openai(&args.upload)?.
MainUploadToOpenai ==
    /\ upload_pc = "call"
    /\ stdout' = stdout \o main_upload_to_openai(upload, environment)
    /\ upload_pc' = "done"
    /\ UNCHANGED <<upload, environment, other_call>>
    /\ UNCHANGED <<pc, args, walk, file_index, generated_output_files, output_file_counter,
                   current_output_file_size, output_file, output_file_path,
                   page_format, disk, log, source, stderr, ret>>

\* The function has returned and is called by another run of the program,
\* in the same upload case, with any key value.
CallAgain ==
    /\ upload_pc = "done"
    /\ ~other_call.ran
    /\ other_call' = [ran |-> TRUE, upload |-> upload,
                      environment |-> environment, stdout |-> stdout]
    /\ \E u \in Uploads, e \in Environments :
          /\ UploadCase(u, e) = UploadCase(upload, environment)
          /\ upload' = u
          /\ environment' = e
    /\ stdout' = <<>>
    /\ upload_pc' = "call"
    /\ UNCHANGED <<pc, args, walk, file_index, generated_output_files, output_file_counter,
                   current_output_file_size, output_file, output_file_path,
                   page_format, disk, log, source, stderr, ret>>

NextUpload == UploadToOpenai \/ MainUploadToOpenai \/ CallAgain

SpecUpload == InitUpload /\ [][NextUpload]_vars

\* The call has returned.
Uploaded == upload_pc = "done"

\* The value of the key the call used is among the lines on standard output.
KeyOnStdout ==
    /\ ApiKey(upload, environment) # <<>>
    /\ \E k \in 1..Len(stdout) : stdout[k] = println(ApiKey(upload, environment)[1])

\* C31: upload_to_openai never writes the value of the API key, given as
\* the argument or taken from OPENAI_API_KEY, to standard output: when it
\* has returned no line of its output is the key, and its output equals
\* that of any other call in the same upload case, whatever the keys.
C31_KeyNeverOnStdout ==
    Uploaded =>
        /\ ~KeyOnStdout
        /\ other_call.ran => stdout = other_call.stdout

====
